---- MODULE Spec2Model ----
(***************************************************************************)
(* Model of the Slack calendar assistant (KeSukhesh/slack-eAi):            *)
(*   - handleLlmCalendarAction (openaiAgent.ts 125-235): the tool loop,    *)
(*     the dispatch on the final action and the fuzzy-delete branch;       *)
(*   - getFuzzyDeleteMatches / sortByTfIdfSimilarity (openaiAgent.ts       *)
(*     290-347);                                                           *)
(*   - the app_mention handler and the button handlers of server.ts.       *)
(* The generation model, the ranking model and the calendar service are    *)
(* external: each of their answers is a nondeterministic choice from a     *)
(* small set, and each call may throw.  Scores are percentages (0.8 = 80). *)
(* Display-only fields of a match (summary, start, htmlLink) are left out. *)
(* Posting to Slack (say, chat.postMessage) is taken to succeed.           *)
(* The events the calendar holds are chosen when an invocation starts and  *)
(* stay the same while it runs: every listing of one invocation precedes   *)
(* its only write.                                                         *)
(***************************************************************************)
EXTENDS Integers, Sequences, FiniteSets, TLC

VARIABLES
    userTokens,   \* server.ts:32  the one stored token bag, Null until connected
    inv,          \* the invocations of handleLlmCalendarAction, one frame per slot
    mentions,     \* number of app_mention events received so far (flow ids)
    replies,      \* the text the mention handler said or posted, per flow
    posted,       \* buttons of the messages posted in the channel
    clicked,      \* buttons the user has clicked
    pending,      \* button events whose handler has not run yet
    calls,        \* history: every write call made to the calendar service
    said,         \* messages posted by the button handlers
    applied,      \* the pure function applied last, with its argument and result
    fetched       \* history: the calendar each flow's disambiguation listed events of

vars ==
    <<userTokens, inv, mentions, replies, posted, clicked, pending, calls, said, applied,
      fetched>>

----------------------------------------------------------------------------
(* Bounds of the model *)

\* the model stops offering the tool request after this many tool executions
MaxToolCalls == 6
\* app_mention events per run
MaxMentions == 1
\* button clicks per run
MaxClicks == 1
\* longest candidate list the ranking model returns
MaxMatches == 4
\* longest event list the similarity prefilter is tried on
MaxEvents == 11

(* Program constants *)

\* openaiAgent.ts:200  bestMatch.score < 0.8
FloorScore == 80
\* server.ts:77  top.score >= 0.9
ConfirmScore == 90
\* server.ts:118  topMatches.slice(0, 3)
MaxButtons == 3
\* openaiAgent.ts:308  slice(0, 10)
TopK == 10

----------------------------------------------------------------------------
(* Values *)

Null == "null"
Absent == "undefined"
Slots == {1}

Actions == {"create", "update", "delete"}
ListTool == "listUpcomingEvents"
Resolver == "handleLlmCalendarAction"

\* JS truthiness of an optional string: undefined and "" are falsy
Truthy(v) == v \notin {Absent, ""}

\* The characters of the datetime strings a candidate object can carry
Chars(str) ==
    CASE str = "2025-05-20T15:00:00" ->
           <<"2","0","2","5","-","0","5","-","2","0","T","1","5",":","0","0",":","0","0">>
      [] str = "2025-05-20T15:30:00" ->
           <<"2","0","2","5","-","0","5","-","2","0","T","1","5",":","3","0",":","0","0">>
      [] str = "2025-05-20T15:00" ->
           <<"2","0","2","5","-","0","5","-","2","0","T","1","5",":","0","0">>
      [] str = "2025-05-20T15:00:00Z" ->
           <<"2","0","2","5","-","0","5","-","2","0","T","1","5",":","0","0",":","0","0","Z">>
      [] str = "2025-05-20 15:00:00" ->
           <<"2","0","2","5","-","0","5","-","2","0"," ","1","5",":","0","0",":","0","0">>
      [] OTHER -> <<>>

Digits == {"0", "1", "2", "3", "4", "5", "6", "7", "8", "9"}

\* variant: the pattern without its end anchor
isoDateTimeRegex_NoEndAnchor(str) ==
    LET c == Chars(str)
        shape == <<"d","d","d","d","-","d","d","-","d","d","T","d","d",":","d","d",":","d","d">>
    IN /\ Len(c) >= Len(shape)
       /\ \A k \in 1..Len(shape) :
             IF shape[k] = "d" THEN c[k] \in Digits ELSE c[k] = shape[k]

\* openaiAgent.ts:112  /^\d{4}-\d{2}-\d{2}T\d{2}:\d{2}:\d{2}$/ .test(str)
isoDateTimeRegex(str) ==
    LET c == Chars(str)
        shape == <<"d","d","d","d","-","d","d","-","d","d","T","d","d",":","d","d",":","d","d">>
    IN /\ Len(c) = Len(shape)
       /\ \A k \in 1..Len(shape) :
             IF shape[k] = "d" THEN c[k] \in Digits ELSE c[k] = shape[k]

\* The candidate objects the generation model can produce, before validation
RawDateTimes ==
    {Absent, "", "2025-05-20T15:00:00", "2025-05-20T15:00", "2025-05-20T15:00:00Z",
     "2025-05-20 15:00:00"}
RawObjects ==
    [ action : Actions \cup {"list"},
      calendarId : {Absent, "primary", "work"},
      summary : {Absent, "Team sync"},
      startDateTime : RawDateTimes,
      endDateTime : RawDateTimes,
      eventId : {Absent, "e1"},
      toolCall : {Absent, ListTool},
      parameters : {Absent} ]

(* Messages of the schema's violations *)
MsgEnum == "Invalid enum value. Expected 'create' | 'update' | 'delete'"
MsgStart == "startDateTime must be in 'YYYY-MM-DDTHH:MM:SS' format"   \* :118
MsgEnd == "endDateTime must be in 'YYYY-MM-DDTHH:MM:SS' format"       \* :119

\* openaiAgent.ts 114-123: schema.safeParse(raw): the violations in the order of
\* the schema's keys, and on success the object with calendarId defaulted
schema(raw) ==
    LET errors ==
            (IF raw.action \in Actions THEN <<>> ELSE <<MsgEnum>>)
            \o (IF raw.startDateTime = Absent \/ isoDateTimeRegex(raw.startDateTime)
                THEN <<>> ELSE <<MsgStart>>)
            \o (IF raw.endDateTime = Absent \/ isoDateTimeRegex(raw.endDateTime)
                THEN <<>> ELSE <<MsgEnd>>)
    IN [ success |-> errors = <<>>,
         errors |-> errors,
         data |-> [raw EXCEPT !.calendarId = IF @ = Absent THEN "primary" ELSE @] ]

\* The objects the generation step delivers, after the schema has parsed them
\* (openaiAgent.ts 114-123): calendarId already defaulted.  Datetimes are
\* generated for create only and eventId for update and delete only (the other
\* branches never read them), parameters only with the tool request.
GenObjects ==
    { o \in [ action : Actions,
              calendarId : {"primary", "work"},
              summary : {Absent, "", "Team sync"},
              startDateTime : {Absent, "2025-05-20T15:00:00"},
              endDateTime : {Absent, "2025-05-20T15:30:00"},
              eventId : {Absent, "", "e1"},
              toolCall : {Absent, ListTool, "sendEmail"},
              parameters : {Absent, "work"} ] :
        /\ (o.action # "create" => o.startDateTime = Absent /\ o.endDateTime = Absent)
        /\ (o.action = "create" => o.eventId = Absent)
        /\ (o.parameters # Absent => o.toolCall = ListTool)
        /\ schema(o).success /\ schema(o).data = o }

NoObject ==
    [ action |-> "none", calendarId |-> "primary", summary |-> Absent,
      startDateTime |-> Absent, endDateTime |-> Absent, eventId |-> Absent,
      toolCall |-> Absent, parameters |-> Absent ]

\* Errors that reach the catch block (openaiAgent.ts 220-233)
ZodError(errors) == [name |-> "ZodError", errors |-> errors]
NoObjectGeneratedError == [name |-> "NoObjectGeneratedError", errors |-> <<>>]
Error == [name |-> "Error", errors |-> <<>>]

\* the violation lists a rejected candidate object can have
ZodIssueLists == { schema(raw).errors : raw \in { r \in RawObjects : ~schema(r).success } }

\* Errors a generation-model call can throw
GenErrors == {NoObjectGeneratedError, Error} \cup { ZodError(errors) : errors \in ZodIssueLists }

\* Events as listUpcomingEvents returns them (calendar.ts 93-112); sim is the
\* tf-idf measure the similarity prefilter computes for the event against the
\* request (openaiAgent.ts:305).
Event(id, sim) == [id |-> id, sim |-> sim]
ListingVals == { <<>>, <<Event("e1", 1), Event("e2", 2)>> }

\* The event lists the similarity prefilter is tried on: every length up to
\* MaxEvents, with measures rising, falling, all equal, or mixed with ties
EventIds == <<"e1", "e2", "e3", "e4", "e5", "e6", "e7", "e8", "e9", "e10", "e11", "e12", "e13">>
SimPatterns == {"rising", "falling", "equal", "mixed"}
SimOf(pattern, k, n) ==
    CASE pattern = "rising" -> k
      [] pattern = "falling" -> n - k
      [] pattern = "equal" -> 1
      [] OTHER -> (k * 7) % 5
EventLists ==
    { [k \in 1..n |-> Event(EventIds[k], SimOf(pattern, k, n))] :
        n \in 0..MaxEvents, pattern \in SimPatterns }

\* Candidates the ranking model can return (FuzzyDeletePreviewSchema,
\* openaiAgent.ts 276-288: any id, any number as score, any length, in any
\* order).  The lists tried are the empty one and, for every length up to
\* MaxMatches, every first candidate followed by the candidate values in
\* rotation from every starting point: sorted and unsorted lists, repeated
\* ids, candidates below the floor behind one above it, a score above 1.
Match(id, score) == [id |-> id, score |-> score]
MatchVals == << Match("e1", 90), Match("e2", 80), Match("e2", 70), Match("e1", 150) >>
RankList(first, next, n) ==
    [ k \in 1..n |-> IF k = 1 THEN MatchVals[first]
                     ELSE MatchVals[((next + k - 3) % Len(MatchVals)) + 1] ]
RankOutputs ==
    { <<>> } \cup { RankList(first, next, n) :
                      first \in DOMAIN MatchVals, next \in DOMAIN MatchVals,
                      n \in 1..MaxMatches }

(* User-facing messages, by their text in the source *)
MsgCreated == "Event created"                       \* openaiAgent.ts:175
MsgUpdated == "Event updated"                       \* openaiAgent.ts:180
MsgDeleted == "Deleted event with ID"               \* openaiAgent.ts:215
MsgNoMatch == "I couldn't confidently find an event to delete"  \* :201
MsgNoEventId == "No event ID found to delete."      \* openaiAgent.ts:212
MsgNotUnderstood == "Could not understand your request."        \* :218
MsgInvalid == "Invalid data format"                 \* openaiAgent.ts:224
MsgRephrase == "The AI could not produce valid data. Please rephrase and try again."
MsgFailed == "Failed to process your request due to an unexpected error."
MsgConnectFirst == "You need to connect your Google Calendar first."  \* server.ts:57
MsgNoMatches == "Couldn't find any matching events"  \* server.ts:71
PreviewType == "fuzzy-delete-preview"

Text(msg) == [type |-> msg, summary |-> Absent, topMatches |-> <<>>]
NoReply == Text("none")

----------------------------------------------------------------------------
(* Pure parts of handleLlmCalendarAction *)

\* variant: the tool name compared is not the one the prompt announces
ToolRequested_WrongName(o) == o.toolCall = "listEvents"

\* openaiAgent.ts:143
ToolRequested(o) == o.toolCall = ListTool

\* openaiAgent.ts:144
ToolCalendarId(o) == IF Truthy(o.parameters) THEN o.parameters ELSE "primary"

\* the generation results that loop (openaiAgent.ts 143-152) and those that
\* leave the loop (154-155); of a looping result only the calendar id is read
ToolObjects == { o : o \in { g \in GenObjects : ToolRequested(g) } }
FinalObjects == { o : o \in GenObjects \ ToolObjects }
ToolCalendarIds == { ToolCalendarId(o) : o \in ToolObjects }

\* openaiAgent.ts 146-148
eventSummaries(events) == IF Len(events) > 0 THEN "events" ELSE "No events found."

\* variant: delete is executed without looking at eventId (as the first
\* version of the resolver did)
DispatchOf_DeleteUnchecked(o) ==
    IF o.action = "create" /\ Truthy(o.startDateTime) /\ Truthy(o.endDateTime) /\ Truthy(o.summary)
    THEN "create"
    ELSE IF o.action = "update" /\ Truthy(o.eventId) /\ Truthy(o.summary)
    THEN "update"
    ELSE IF o.action = "delete" THEN "delete"
    ELSE "none"

\* variant: the delete branch looks at summary before eventId
DispatchOf_SummaryFirst(o) ==
    IF o.action = "create" /\ Truthy(o.startDateTime) /\ Truthy(o.endDateTime) /\ Truthy(o.summary)
    THEN "create"
    ELSE IF o.action = "update" /\ Truthy(o.eventId) /\ Truthy(o.summary)
    THEN "update"
    ELSE IF o.action = "delete"
    THEN IF Truthy(o.summary) THEN "fuzzy"
         ELSE IF ~Truthy(o.eventId) THEN "noid"
         ELSE "delete"
    ELSE "none"

\* variant: create does not require endDateTime
DispatchOf_NoEndCheck(o) ==
    IF o.action = "create" /\ Truthy(o.startDateTime) /\ Truthy(o.summary)
    THEN "create"
    ELSE IF o.action = "update" /\ Truthy(o.eventId) /\ Truthy(o.summary)
    THEN "update"
    ELSE IF o.action = "delete"
    THEN IF ~Truthy(o.eventId) /\ Truthy(o.summary) THEN "fuzzy"
         ELSE IF ~Truthy(o.eventId) THEN "noid"
         ELSE "delete"
    ELSE "none"

\* variant: update does not require eventId
DispatchOf_UpdateNoIdCheck(o) ==
    IF o.action = "create" /\ Truthy(o.startDateTime) /\ Truthy(o.endDateTime) /\ Truthy(o.summary)
    THEN "create"
    ELSE IF o.action = "update" /\ Truthy(o.summary)
    THEN "update"
    ELSE IF o.action = "delete"
    THEN IF ~Truthy(o.eventId) /\ Truthy(o.summary) THEN "fuzzy"
         ELSE IF ~Truthy(o.eventId) THEN "noid"
         ELSE "delete"
    ELSE "none"

\* variant: a delete without eventId goes to disambiguation whether or not a
\* summary is given
DispatchOf_FuzzyWithoutSummary(o) ==
    IF o.action = "create" /\ Truthy(o.startDateTime) /\ Truthy(o.endDateTime) /\ Truthy(o.summary)
    THEN "create"
    ELSE IF o.action = "update" /\ Truthy(o.eventId) /\ Truthy(o.summary)
    THEN "update"
    ELSE IF o.action = "delete"
    THEN IF ~Truthy(o.eventId) THEN "fuzzy"
         ELSE "delete"
    ELSE "none"

\* variant: a complete update takes the delete branch
DispatchOf_UpdateDeletes(o) ==
    IF o.action = "create" /\ Truthy(o.startDateTime) /\ Truthy(o.endDateTime) /\ Truthy(o.summary)
    THEN "create"
    ELSE IF o.action = "update" /\ Truthy(o.eventId) /\ Truthy(o.summary)
    THEN "delete"
    ELSE IF o.action = "delete"
    THEN IF ~Truthy(o.eventId) /\ Truthy(o.summary) THEN "fuzzy"
         ELSE IF ~Truthy(o.eventId) THEN "noid"
         ELSE "delete"
    ELSE "none"

\* openaiAgent.ts 165-218: the branch the final action takes
DispatchOf(o) ==
    IF o.action = "create" /\ Truthy(o.startDateTime) /\ Truthy(o.endDateTime) /\ Truthy(o.summary)
    THEN "create"
    ELSE IF o.action = "update" /\ Truthy(o.eventId) /\ Truthy(o.summary)
    THEN "update"
    ELSE IF o.action = "delete"
    THEN IF ~Truthy(o.eventId) /\ Truthy(o.summary) THEN "fuzzy"
         ELSE IF ~Truthy(o.eventId) THEN "noid"
         ELSE "delete"
    ELSE "none"

\* the event details passed to the calendar write (openaiAgent.ts 166-170, 179, 214)
CallDetails(op, o) ==
    IF op = "create" THEN <<o.summary, o.startDateTime, o.endDateTime>>
    ELSE IF op = "update" THEN <<o.summary>>
    ELSE <<>>

\* Array.prototype.join
RECURSIVE Join(_, _)
Join(strs, separator) ==
    IF Len(strs) = 0 THEN ""
    ELSE IF Len(strs) = 1 THEN strs[1]
    ELSE strs[1] \o separator \o Join(Tail(strs), separator)

\* variant: only the first violation is reported
ErrorReply_FirstOnly(e) ==
    IF e.name = "ZodError" THEN Text(MsgInvalid \o ": " \o e.errors[1])
    ELSE IF e.name = "NoObjectGeneratedError" THEN Text(MsgRephrase)
    ELSE Text(MsgFailed)

\* variant: the catch block lets an unexpected error go on
ErrorReply_Rethrow(e) ==
    IF e.name = "ZodError" THEN Text(MsgInvalid \o ": " \o Join(e.errors, ", "))
    ELSE IF e.name = "NoObjectGeneratedError" THEN Text(MsgRephrase)
    ELSE Text("uncaught " \o e.name)

\* openaiAgent.ts 220-233: the catch block
ErrorReply(e) ==
    IF e.name = "ZodError" THEN Text(MsgInvalid \o ": " \o Join(e.errors, ", "))
    ELSE IF e.name = "NoObjectGeneratedError" THEN Text(MsgRephrase)
    ELSE Text(MsgFailed)

\* Array.prototype.sort with (a, b) => b.similarity - a.similarity: stable,
\* descending (openaiAgent.ts:308)
RECURSIVE InsertBySim(_, _)
InsertBySim(e, s) ==
    IF s = <<>> THEN <<e>>
    ELSE IF Head(s).sim >= e.sim THEN <<Head(s)>> \o InsertBySim(e, Tail(s))
    ELSE <<e>> \o s
RECURSIVE SortBySim(_)
SortBySim(s) ==
    IF s = <<>> THEN <<>>
    ELSE InsertBySim(s[Len(s)], SortBySim(SubSeq(s, 1, Len(s) - 1)))

Take(s, n) == SubSeq(s, 1, IF Len(s) < n THEN Len(s) ELSE n)

\* variant: one instance kept by the module, so that a call starts with the
\* documents earlier calls added
NewTfIdf_Shared(earlier) == earlier

\* openaiAgent.ts:291  const tfidf = new TfIdf(): every call starts with an
\* instance of its own, whatever documents an earlier call added to its one
NewTfIdf(earlier) == <<>>

\* openaiAgent.ts 295-300: addDocument for each event; a document stands for
\* its measure against the request
addDocuments(tfidf, eventDocs) == tfidf \o [k \in 1..Len(eventDocs) |-> eventDocs[k].sim]

\* openaiAgent.ts 303-306: event i gets the measure of document i of the instance
scores(tfidf, eventDocs) ==
    [k \in 1..Len(eventDocs) |-> [eventDocs[k] EXCEPT !.sim = tfidf[k]]]

\* variant: the list is cut to ten before it is sorted
prefilter_SliceFirst(earlier, events) ==
    LET tfidf == addDocuments(NewTfIdf(earlier), events)
    IN [tfidf |-> tfidf, top |-> SortBySim(Take(scores(tfidf, events), TopK))]

\* openaiAgent.ts 290-309, with the instance a preceding call left behind: the
\* instance the call ends with and the list it returns
prefilter(earlier, events) ==
    LET tfidf == addDocuments(NewTfIdf(earlier), events)
    IN [tfidf |-> tfidf, top |-> Take(SortBySim(scores(tfidf, events)), TopK)]

\* openaiAgent.ts 290-309
sortByTfIdfSimilarity(events) == prefilter(<<>>, events).top

\* variant: only an empty list counts as no match
FuzzyReply_NoFloor(summary, topMatches) ==
    IF Len(topMatches) = 0
    THEN Text(MsgNoMatch)
    ELSE [type |-> PreviewType, summary |-> summary, topMatches |-> topMatches]

\* openaiAgent.ts 198-209: what the fuzzy branch returns for the ranking output
FuzzyReply(summary, topMatches) ==
    IF Len(topMatches) = 0 \/ topMatches[1].score < FloorScore
    THEN Text(MsgNoMatch)
    ELSE [type |-> PreviewType, summary |-> summary, topMatches |-> topMatches]

----------------------------------------------------------------------------
(* Pure parts of server.ts *)

\* server.ts 23-30
isFuzzyDeletePreview(reply) == reply.type = PreviewType

\* a button: delete_match_N is action_id "delete_match" with n = N
Button(action_id, n, eventId, flow) ==
    [action_id |-> action_id, n |-> n, eventId |-> eventId, flow |-> flow]

\* variant: the confirm prompt needs a score strictly above the threshold
PreviewButtons_StrictThreshold(reply, flow) ==
    LET topMatches == reply.topMatches
        top == topMatches[1]
        shown == Take(topMatches, MaxButtons)
    IN IF top.score > ConfirmScore
       THEN { Button("confirm_delete_action", 0, top.id, flow),
              Button("discard_action", 0, Absent, flow) }
       ELSE { Button("delete_match", k - 1, shown[k].id, flow) : k \in 1..Len(shown) }
            \cup { Button("cancel_fuzzy_delete", 0, Absent, flow) }

\* variant: the candidate list is not cut to its first three entries
PreviewButtons_NoSlice(reply, flow) ==
    LET topMatches == reply.topMatches
        top == topMatches[1]
    IN IF top.score >= ConfirmScore
       THEN { Button("confirm_delete_action", 0, top.id, flow),
              Button("discard_action", 0, Absent, flow) }
       ELSE { Button("delete_match", k - 1, topMatches[k].id, flow) : k \in 1..Len(topMatches) }
            \cup { Button("cancel_fuzzy_delete", 0, Absent, flow) }

\* server.ts 75-155: the buttons of the message posted for a preview
PreviewButtons(reply, flow) ==
    LET topMatches == reply.topMatches
        top == topMatches[1]
        shown == Take(topMatches, MaxButtons)
    IN IF top.score >= ConfirmScore
       THEN { Button("confirm_delete_action", 0, top.id, flow),
              Button("discard_action", 0, Absent, flow) }
       ELSE { Button("delete_match", k - 1, shown[k].id, flow) : k \in 1..Len(shown) }
            \cup { Button("cancel_fuzzy_delete", 0, Absent, flow) }

\* server.ts 66-164: what the mention handler tells the user for a reply
ReplyText(reply) ==
    IF isFuzzyDeletePreview(reply)
    THEN IF Len(reply.topMatches) = 0 THEN MsgNoMatches
         ELSE IF reply.topMatches[1].score >= ConfirmScore THEN "confirm prompt"
         ELSE "candidate list"
    ELSE reply.type

\* server.ts 294, 324: the delete a button handler issues
Call(op, calendarId, eventId, details, flow, by) ==
    [op |-> op, calendarId |-> calendarId, eventId |-> eventId, details |-> details,
     flow |-> flow, by |-> by]
\* variant: the handler deletes another event than the one of its button
ButtonDelete_OtherEvent(b) ==
    Call("delete", "primary", IF b.eventId = "e1" THEN "e2" ELSE "e1", <<>>, b.flow, b.action_id)
ButtonDelete(b) == Call("delete", "primary", b.eventId, <<>>, b.flow, b.action_id)

----------------------------------------------------------------------------
(* Frames of handleLlmCalendarAction *)

\* server.ts 54: the text of the mention, as the user wrote it
MentionText == "please remove the sync with the team"

Idle ==
    [ pc |-> "Idle", flow |-> 0, text |-> Absent, userText |-> Absent,
      promptContext |-> <<>>, toolResult |-> NoObject,
      live |-> <<>>, calendarId |-> "primary", events |-> <<>>, topCandidates |-> <<>>,
      listed |-> FALSE, topMatches |-> <<>>, ranked |-> FALSE, result |-> NoReply ]

\* variant: promptContext is declared outside the function and an invocation
\* starts on what another invocation in flight has accumulated
Started_SharedContext(flow, live) ==
    LET others == { j \in DOMAIN inv : inv[j].pc \in {"Requesting", "ToolPending"} }
    IN [Idle EXCEPT !.pc = "Requesting", !.flow = flow, !.live = live,
                    !.text = MentionText,
                    !.promptContext = IF others = {} THEN <<>>
                                      ELSE inv[CHOOSE j \in others : TRUE].promptContext]

\* openaiAgent.ts 127-129
Started(flow, live) ==
    [Idle EXCEPT !.pc = "Requesting", !.flow = flow, !.live = live, !.text = MentionText]

Returned(f, reply) == [f EXCEPT !.pc = "Returned", !.result = reply]

\* nothing applied yet
NotApplied == [fn |-> "none", arg |-> <<>>, out |-> <<>>]

Init ==
    /\ userTokens = Null
    /\ inv = [i \in Slots |-> Idle]
    /\ mentions = 0
    /\ replies = << >>
    /\ posted = {}
    /\ clicked = {}
    /\ pending = {}
    /\ calls = <<>>
    /\ said = {}
    /\ applied = NotApplied
    /\ fetched = {}

----------------------------------------------------------------------------
(* Actions *)

\* server.ts 360-384: the OAuth callback stores the tokens it obtained
OAuthCallback ==
    /\ \E ok \in BOOLEAN :
          userTokens' = IF ok THEN "tokens" ELSE userTokens
    /\ UNCHANGED <<inv, mentions, replies, posted, clicked, pending, calls, said, applied, fetched>>

\* variant: the mention handler calls handleLlmCalendarAction without asking
\* whether tokens are stored
HandleMention_NoTokenTest(i) ==
    /\ inv[i].pc = "Idle"
    /\ mentions' = mentions + 1
    /\ \E live \in ListingVals :
          inv' = [inv EXCEPT ![i] = Started(mentions', live)]
    /\ replies' = Append(replies, NoReply.type)
    /\ UNCHANGED <<userTokens, posted, clicked, pending, calls, said, applied, fetched>>

\* server.ts 53-62: the mention handler starts for an app_mention event
HandleMention(i) ==
    /\ inv[i].pc = "Idle"
    /\ mentions' = mentions + 1
    /\ IF userTokens = Null
       THEN /\ replies' = Append(replies, MsgConnectFirst)
            /\ inv' = inv
       ELSE /\ \E live \in ListingVals :
                  inv' = [inv EXCEPT ![i] = Started(mentions', live)]
            /\ replies' = Append(replies, NoReply.type)
    /\ UNCHANGED <<userTokens, posted, clicked, pending, calls, said, applied, fetched>>

\* an app_mention event arrives
AppMention(i) ==
    /\ mentions < MaxMentions
    /\ HandleMention(i)

\* openaiAgent.ts 132-139, 220-233: generateObject throws
GenerateFails(i) ==
    /\ inv[i].pc = "Requesting"
    /\ \E e \in GenErrors :
          inv' = [inv EXCEPT ![i] = Returned(@, ErrorReply(e))]
    /\ UNCHANGED <<userTokens, mentions, replies, posted, clicked, pending, calls, said, applied, fetched>>

\* openaiAgent.ts 143-145: the object asks for the tool; listUpcomingEvents is called
GenerateToolCall(i) ==
    /\ inv[i].pc = "Requesting"
    /\ Len(inv[i].promptContext) < MaxToolCalls
    /\ \E calendarId \in ToolCalendarIds :
          inv' = [inv EXCEPT ![i] = [@ EXCEPT !.pc = "ToolPending",
                                             !.calendarId = calendarId]]
    /\ UNCHANGED <<userTokens, mentions, replies, posted, clicked, pending, calls, said, applied, fetched>>

\* openaiAgent.ts 145-151: the tool answers (or throws); its result is appended
ToolResponds(i) ==
    /\ inv[i].pc = "ToolPending"
    /\ \/ LET events == inv[i].live IN
             inv' = [inv EXCEPT ![i] =
                        [@ EXCEPT !.pc = "Requesting",
                                  !.promptContext = Append(@, eventSummaries(events))]]
       \/ inv' = [inv EXCEPT ![i] = Returned(@, ErrorReply(Error))]
    /\ UNCHANGED <<userTokens, mentions, replies, posted, clicked, pending, calls, said, applied, fetched>>

\* openaiAgent.ts 154-218: a final object leaves the loop and is dispatched, up
\* to the first call it awaits; for a delete by summary that call is
\* listUpcomingEvents(userTokens, calendarId, 50) of line 188.  promptContext is not read after the loop and is
\* not tracked past it.
GenerateFinal(i) ==
    /\ inv[i].pc = "Requesting"
    /\ \E o \in FinalObjects :
          /\ LET f == [inv[i] EXCEPT !.toolResult = o, !.calendarId = o.calendarId,
                                     !.promptContext = <<>>]
                 branch == DispatchOf(o)
                 write(op) == Call(op, o.calendarId,
                                   IF op = "create" THEN Absent ELSE o.eventId,
                                   CallDetails(op, o), f.flow, Resolver)
             IN CASE branch = "create" ->
                       /\ inv' = [inv EXCEPT ![i] = [f EXCEPT !.pc = "Creating"]]
                       /\ calls' = Append(calls, write("create"))
                  [] branch = "update" ->
                       /\ inv' = [inv EXCEPT ![i] = [f EXCEPT !.pc = "Updating"]]
                       /\ calls' = Append(calls, write("update"))
                  [] branch = "delete" ->
                       /\ inv' = [inv EXCEPT ![i] = [f EXCEPT !.pc = "Deleting"]]
                       /\ calls' = Append(calls, write("delete"))
                  [] branch = "fuzzy" ->
                       /\ inv' = [inv EXCEPT ![i] = [f EXCEPT !.pc = "Listing"]]
                       /\ calls' = calls
                  [] branch = "noid" ->
                       /\ inv' = [inv EXCEPT ![i] = Returned(f, Text(MsgNoEventId))]
                       /\ calls' = calls
                  [] OTHER ->
                       /\ inv' = [inv EXCEPT ![i] = Returned(f, Text(MsgNotUnderstood))]
                       /\ calls' = calls
          /\ fetched' = IF DispatchOf(o) = "fuzzy"
                        THEN fetched \cup {[flow |-> inv[i].flow, calendarId |-> o.calendarId]}
                        ELSE fetched
    /\ UNCHANGED <<userTokens, mentions, replies, posted, clicked, pending, said, applied>>

\* openaiAgent.ts 166-175, 179-180, 214-215: the calendar write returns or throws
WriteResponds(i) ==
    /\ inv[i].pc \in {"Creating", "Updating", "Deleting"}
    /\ \E ok \in BOOLEAN :
          inv' = [inv EXCEPT ![i] =
                     Returned(@, IF ~ok THEN ErrorReply(Error)
                                 ELSE IF @.pc = "Creating" THEN Text(MsgCreated)
                                 ELSE IF @.pc = "Updating" THEN Text(MsgUpdated)
                                 ELSE Text(MsgDeleted))]
    /\ UNCHANGED <<userTokens, mentions, replies, posted, clicked, pending, calls, said, applied, fetched>>

\* openaiAgent.ts 188-197, 312-344: the live events arrive, are ranked by the
\* prefilter and the ranking model is called; userText is the first argument
\* of getFuzzyDeleteMatches, the text its prompt quotes as what the user said
ListingResponds(i) ==
    /\ inv[i].pc = "Listing"
    /\ \/ LET events == inv[i].live IN
             inv' = [inv EXCEPT ![i] =
                        [@ EXCEPT !.pc = "Ranking", !.listed = TRUE, !.events = events,
                                  !.userText = inv[i].toolResult.summary,
                                  !.topCandidates = sortByTfIdfSimilarity(events)]]
       \/ inv' = [inv EXCEPT ![i] = Returned(@, ErrorReply(Error))]
    /\ UNCHANGED <<userTokens, mentions, replies, posted, clicked, pending, calls, said, applied, fetched>>

\* openaiAgent.ts 314-346, 198-209: the ranking model answers (or throws)
RankingResponds(i) ==
    /\ inv[i].pc = "Ranking"
    /\ \/ \E topMatches \in RankOutputs :
             inv' = [inv EXCEPT ![i] =
                        Returned([@ EXCEPT !.topMatches = topMatches, !.ranked = TRUE],
                                 FuzzyReply(@.toolResult.summary, topMatches))]
       \/ \E e \in GenErrors :
             inv' = [inv EXCEPT ![i] = Returned(@, ErrorReply(e))]
    /\ UNCHANGED <<userTokens, mentions, replies, posted, clicked, pending, calls, said, applied, fetched>>

\* server.ts 62-164: the mention handler renders the reply
MentionReply(i) ==
    /\ inv[i].pc = "Returned"
    /\ LET reply == inv[i].result
           flow == inv[i].flow
       IN /\ replies' = [replies EXCEPT ![flow] = ReplyText(reply)]
          /\ posted' = IF isFuzzyDeletePreview(reply) /\ Len(reply.topMatches) > 0
                       THEN posted \cup PreviewButtons(reply, flow)
                       ELSE posted
    /\ inv' = [inv EXCEPT ![i] = Idle]
    /\ UNCHANGED <<userTokens, mentions, clicked, pending, calls, said, applied, fetched>>

\* the user clicks a button of a posted message
ClickButton ==
    /\ Cardinality(clicked) < MaxClicks
    /\ \E b \in posted \ clicked :
          /\ clicked' = clicked \cup {b}
          /\ pending' = pending \cup {b}
    /\ UNCHANGED <<userTokens, inv, mentions, replies, posted, calls, said, applied, fetched>>

\* server.ts 286-307 and 317-337: confirm_delete_action, delete_match_N
DeleteButtonHandler ==
    /\ \E b \in pending :
          /\ b.action_id \in {"confirm_delete_action", "delete_match"}
          /\ pending' = pending \ {b}
          /\ calls' = Append(calls, ButtonDelete(b))
          /\ \E ok \in BOOLEAN :
                said' = said \cup {[flow |-> b.flow, eventId |-> b.eventId,
                                    text |-> IF ok THEN "Deleted event"
                                             ELSE "Failed to delete event."]}
    /\ UNCHANGED <<userTokens, inv, mentions, replies, posted, clicked, applied, fetched>>

\* server.ts 309-315 and 339-345: discard_action, cancel_fuzzy_delete
CancelButtonHandler ==
    /\ \E b \in pending :
          /\ b.action_id \in {"discard_action", "cancel_fuzzy_delete"}
          /\ pending' = pending \ {b}
          /\ said' = said \cup {[flow |-> b.flow, eventId |-> Absent,
                                 text |-> IF b.action_id = "discard_action"
                                          THEN "Cancelled."
                                          ELSE "Cancelled deletion request."]}
    /\ UNCHANGED <<userTokens, inv, mentions, replies, posted, clicked, calls, applied, fetched>>

Next ==
    \/ OAuthCallback
    \/ \E i \in Slots : AppMention(i)
    \/ \E i \in Slots : GenerateFails(i)
    \/ \E i \in Slots : GenerateToolCall(i)
    \/ \E i \in Slots : ToolResponds(i)
    \/ \E i \in Slots : GenerateFinal(i)
    \/ \E i \in Slots : WriteResponds(i)
    \/ \E i \in Slots : ListingResponds(i)
    \/ \E i \in Slots : RankingResponds(i)
    \/ \E i \in Slots : MentionReply(i)
    \/ ClickButton
    \/ DeleteButtonHandler
    \/ CancelButtonHandler

Spec == Init /\ [][Next]_vars

\* The handlers run on once what they await has settled (server.ts 62, 286-345):
\* the steps of the program itself are taken when they can be.  Nothing makes
\* the generation model, the ranking model or the calendar answer.
Fairness ==
    /\ \A i \in Slots : WF_vars(MentionReply(i))
    /\ WF_vars(DeleteButtonHandler)
    /\ WF_vars(CancelButtonHandler)

SpecLive == Spec /\ Fairness

----------------------------------------------------------------------------
(* Two invocations of handleLlmCalendarAction at once: the mention handler is
   async, a second app_mention event starts a second invocation while the
   first is suspended in an await *)

Invocations == {1, 2}

\* The answers the two invocations are given: at most MaxConcurrentToolCalls
\* tool rounds each, final objects for the primary calendar with the optional
\* strings either absent or filled, three rankings and three errors.
MaxConcurrentToolCalls == 1
ConcurrentObjects ==
    { o \in FinalObjects : /\ o.calendarId = "primary" /\ o.toolCall = Absent
                           /\ o.summary # "" /\ o.eventId # ""
                           /\ (o.startDateTime = Absent) = (o.endDateTime = Absent) }
ConcurrentRankings == { <<>>, <<MatchVals[1]>>, <<MatchVals[2], MatchVals[1]>> }
ConcurrentErrors == { Error, NoObjectGeneratedError, ZodError(<<MsgStart>>) }
Answered(f) ==
    /\ Len(f.promptContext) <= MaxConcurrentToolCalls
    /\ f.calendarId = "primary"
    /\ f.toolResult \in {NoObject} \cup ConcurrentObjects
    /\ f.topMatches \in ConcurrentRankings
    /\ f.result \notin { ErrorReply(e) : e \in GenErrors \ ConcurrentErrors }

\* the workspace is connected and no mention has arrived
InitConcurrent ==
    /\ userTokens = "tokens"
    /\ inv = [i \in Invocations |-> Idle]
    /\ mentions = 0
    /\ replies = << >>
    /\ posted = {}
    /\ clicked = {}
    /\ pending = {}
    /\ calls = <<>>
    /\ said = {}
    /\ applied = NotApplied
    /\ fetched = {}

\* one app_mention event per invocation
ConcurrentMention(i) ==
    /\ mentions < Cardinality(Invocations)
    /\ HandleMention(i)

NextConcurrent ==
    \/ \E i \in Invocations : ConcurrentMention(i)
    \/ \E i \in Invocations : GenerateFails(i) /\ Answered(inv'[i])
    \/ \E i \in Invocations : GenerateToolCall(i) /\ Answered(inv'[i])
    \/ \E i \in Invocations : ToolResponds(i) /\ Answered(inv'[i])
    \/ \E i \in Invocations : GenerateFinal(i) /\ Answered(inv'[i])
    \/ \E i \in Invocations : WriteResponds(i) /\ Answered(inv'[i])
    \/ \E i \in Invocations : ListingResponds(i) /\ Answered(inv'[i])
    \/ \E i \in Invocations : RankingResponds(i) /\ Answered(inv'[i])

SpecConcurrent == InitConcurrent /\ [][NextConcurrent]_vars

----------------------------------------------------------------------------
(* The /calendar slash command (server.ts 172-284) *)

MsgCalendars == "Here are your calendars"            \* server.ts:191
MsgNoCalendars == "You have no calendars."           \* server.ts:183
MsgAuthUrl == "Please connect your Google Calendar"  \* server.ts:194
MsgUsageCreate == "Usage: /calendar create"          \* server.ts:198
MsgUsageUpdate == "Usage: /calendar update"          \* server.ts:225
MsgUsageDelete == "Usage: /calendar delete"          \* server.ts:246
MsgEventCreated == "Event created:"                  \* server.ts:222
MsgEventUpdated == "Event updated:"                  \* server.ts:242
MsgEventDeleted == "Event deleted."                  \* server.ts:261
MsgNoUpcoming == "No upcoming events found."         \* server.ts:273
MsgUpcoming == "Here are your upcoming events"       \* server.ts:279
MsgUnknown == "Unknown subcommand."                  \* server.ts:282

Command == "/calendar"
Subcommands == {"list", "connect", "create", "update", "delete", "upcoming"}

\* server.ts 206, 233, 254: args[1].includes("@") || args[1].includes(".")
LooksLikeCalendarId(str) ==
    CASE str = "work@example.com" -> TRUE
      [] str = "team.calendar" -> TRUE
      [] OTHER -> FALSE

\* args[k] of the source (0-based); undefined past the end
Arg(args, k) == IF k + 1 <= Len(args) THEN args[k + 1] ELSE Absent

\* server.ts 174: command.text.trim().split(/\s+/), by the texts tried; an
\* empty text splits into one empty string
CommandArgs ==
    { <<"">>, <<"help">>, <<"list">>, <<"connect">>,
      <<"upcoming">>, <<"upcoming", "work@example.com">>,
      <<"create">>, <<"create", "Standup", "2025-05-20T15:00:00">>,
      <<"create", "Standup", "2025-05-20T15:00:00", "2025-05-20T15:30:00">>,
      <<"create", "work@example.com", "Standup", "2025-05-20T15:00:00", "2025-05-20T15:30:00">>,
      <<"create", "team.calendar", "Standup", "2025-05-20T15:00:00">>,
      <<"update">>, <<"update", "e1">>, <<"update", "e1", "Renamed">>,
      <<"update", "work@example.com", "e1", "Renamed">>,
      <<"delete">>, <<"delete", "e1">>, <<"delete", "work@example.com", "e1">>,
      <<"delete", "team.calendar">> }

\* what the calendar service answers to the call a command makes: it throws,
\* or returns these calendars or events
CommandAnswers ==
    [ ok : BOOLEAN, calendars : {<<>>, <<"primary">>}, events : ListingVals ]

\* what a run of the handler did: the messages it said, the calendar calls it
\* made, and whether it has left the handler (a return or a throw)
Outcome(says, made, left) == [says |-> says, calls |-> made, left |-> left]

\* a call that throws ends the handler (no try around it); otherwise the
\* handler says msg and goes on
AfterCall(call, answer, msg) ==
    IF answer.ok THEN Outcome(<<msg>>, <<call>>, FALSE)
    ELSE Outcome(<<>>, <<call>>, TRUE)

\* server.ts 176-195: the first if / else if, list and connect
ListOrConnect(args, tokens, answer) ==
    IF Arg(args, 0) = "list"
    THEN IF tokens = Null THEN Outcome(<<MsgConnectFirst>>, <<>>, TRUE)
         ELSE LET call == Call("listCalendars", Absent, Absent, <<>>, 0, Command) IN
              IF ~answer.ok THEN Outcome(<<>>, <<call>>, TRUE)
              ELSE IF Len(answer.calendars) = 0
                   THEN Outcome(<<MsgNoCalendars>>, <<call>>, TRUE)
                   ELSE Outcome(<<MsgCalendars>>, <<call>>, FALSE)
    ELSE IF Arg(args, 0) = "connect"
    THEN Outcome(<<MsgAuthUrl>>, <<>>, FALSE)
    ELSE Outcome(<<>>, <<>>, FALSE)

\* server.ts 196-283: the second if / else if chain, which line 196 starts
\* with a plain `if`
CreateToUnknown(args, tokens, answer) ==
    LET shift == IF LooksLikeCalendarId(Arg(args, 1)) THEN 1 ELSE 0
        calendarId == IF shift = 1 THEN Arg(args, 1) ELSE "primary"
        sub == Arg(args, 0)
    IN IF sub = "create"
       THEN IF Len(args) < 4 THEN Outcome(<<MsgUsageCreate>>, <<>>, TRUE)
            ELSE AfterCall(Call("create", calendarId, Absent,
                                <<Arg(args, 1 + shift), Arg(args, 2 + shift), Arg(args, 3 + shift)>>,
                                0, Command),
                           answer, MsgEventCreated)
       ELSE IF sub = "update"
       THEN IF Len(args) < 3 THEN Outcome(<<MsgUsageUpdate>>, <<>>, TRUE)
            ELSE AfterCall(Call("update", calendarId, Arg(args, 1 + shift),
                                <<Arg(args, 2 + shift)>>, 0, Command),
                           answer, MsgEventUpdated)
       ELSE IF sub = "delete"
       THEN IF Len(args) < 2 THEN Outcome(<<MsgUsageDelete>>, <<>>, TRUE)
            ELSE AfterCall(Call("delete", calendarId, Arg(args, 1 + shift), <<>>, 0, Command),
                           answer, MsgEventDeleted)
       ELSE IF sub = "upcoming"
       THEN IF tokens = Null THEN Outcome(<<MsgConnectFirst>>, <<>>, TRUE)
            ELSE AfterCall(Call("listUpcomingEvents",
                                IF Truthy(Arg(args, 1)) THEN Arg(args, 1) ELSE "primary",
                                Absent, <<>>, 0, Command),
                           answer,
                           IF Len(answer.events) = 0 THEN MsgNoUpcoming ELSE MsgUpcoming)
       ELSE Outcome(<<MsgUnknown>>, <<>>, FALSE)

\* server.ts 172-284: the handler, one chain after the other
calendarCommand(args, tokens, answer) ==
    LET first == ListOrConnect(args, tokens, answer) IN
    IF first.left THEN first
    ELSE LET second == CreateToUnknown(args, tokens, answer) IN
         Outcome(first.says \o second.says, first.calls \o second.calls, second.left)

\* a /calendar command arrives and its handler runs
CalendarCommand ==
    /\ applied = NotApplied
    /\ \E args \in CommandArgs, answer \in CommandAnswers :
          LET out == calendarCommand(args, userTokens, answer) IN
          /\ applied' = [fn |-> Command, arg |-> [args |-> args, answer |-> answer],
                         out |-> out.says]
          /\ calls' = calls \o out.calls
    /\ UNCHANGED <<userTokens, inv, mentions, replies, posted, clicked, pending, said, fetched>>

NextCommands ==
    \/ OAuthCallback
    \/ CalendarCommand

SpecCommands == Init /\ [][NextCommands]_vars

----------------------------------------------------------------------------
(* The pure functions on their own: a run applies one of them to one input *)

\* the validator applied to a candidate object (openaiAgent.ts 114-123)
ApplySchema ==
    /\ applied = NotApplied
    /\ \E raw \in RawObjects :
          applied' = [fn |-> "schema", arg |-> raw, out |-> schema(raw)]
    /\ UNCHANGED <<userTokens, inv, mentions, replies, posted, clicked, pending, calls, said, fetched>>

\* the catch block applied to an error (openaiAgent.ts 220-233)
ApplyCatch ==
    /\ applied = NotApplied
    /\ \E e \in GenErrors :
          applied' = [fn |-> "catch", arg |-> e, out |-> ErrorReply(e)]
    /\ UNCHANGED <<userTokens, inv, mentions, replies, posted, clicked, pending, calls, said, fetched>>

\* the similarity prefilter applied to an event list (openaiAgent.ts 290-309)
ApplyPrefilter ==
    /\ applied = NotApplied
    /\ \E events \in EventLists :
          applied' = [fn |-> "sortByTfIdfSimilarity", arg |-> events,
                      out |-> sortByTfIdfSimilarity(events)]
    /\ UNCHANGED <<userTokens, inv, mentions, replies, posted, clicked, pending, calls, said, fetched>>

\* the similarity prefilter called for one event list and then twice for
\* another: the results of the second and the third call
ApplyPrefilterAgain ==
    /\ applied = NotApplied
    /\ \E earlier \in EventLists, events \in EventLists :
          LET first == prefilter(<<>>, earlier)
              second == prefilter(first.tfidf, events)
              third == prefilter(second.tfidf, events)
          IN applied' = [fn |-> "sortByTfIdfSimilarity again", arg |-> <<earlier, events>>,
                         out |-> <<second.top, third.top>>]
    /\ UNCHANGED <<userTokens, inv, mentions, replies, posted, clicked, pending, calls, said, fetched>>

NextFunctions ==
    \/ ApplySchema
    \/ ApplyCatch
    \/ ApplyPrefilter
    \/ ApplyPrefilterAgain

SpecFunctions == Init /\ [][NextFunctions]_vars

----------------------------------------------------------------------------
(* Properties *)

\* the write calls handleLlmCalendarAction itself made in a flow
ResolverCalls(flow) == SelectSeq(calls, LAMBDA c : c.flow = flow /\ c.by = Resolver)
\* the buttons posted for a flow
ButtonsOf(flow) == { b \in posted : b.flow = flow }
DeleteButtons == {"confirm_delete_action", "delete_match"}
\* a final action that asks for a delete without naming the event: eventId is
\* missing (undefined or empty) and a summary is given
AmbiguousDelete(o) == o.action = "delete" /\ ~Truthy(o.eventId) /\ Truthy(o.summary)
Min(a, b) == IF a < b THEN a ELSE b
\* the messages the catch block can return
FailureMessages ==
    {MsgFailed, MsgRephrase}
    \cup { MsgInvalid \o ": " \o Join(errors, ", ") : errors \in ZodIssueLists }
\* everything an invocation may hand back: a message for the user or the preview
UserFacing ==
    {MsgCreated, MsgUpdated, MsgDeleted, MsgNoMatch, MsgNoEventId, MsgNotUnderstood,
     PreviewType} \cup FailureMessages

\* C1: the number of tool executions of one invocation never exceeds the
\* iteration cap of 5 (a sixth consecutive tool request ends the invocation
\* with ToolLoopExceeded instead of being executed).
C1_ToolLoopCapped ==
    \A i \in DOMAIN inv :
        /\ Len(inv[i].promptContext) <= 5
        /\ (inv[i].pc = "ToolPending" => Len(inv[i].promptContext) < 5)

\* C2: when the final action is a delete without eventId and with a summary,
\* the invocation makes no delete call, whatever events are fetched and whatever
\* the ranking model returns; it ends with the preview, the no-match message or,
\* when a call threw, a failure message.
C2_AmbiguousDeleteNeverDeletes ==
    \A i \in DOMAIN inv :
        LET f == inv[i] IN
        AmbiguousDelete(f.toolResult) =>
            /\ \A k \in 1..Len(calls) : calls[k].flow = f.flow => calls[k].op # "delete"
            /\ f.pc \in {"Listing", "Ranking", "Returned"}
            /\ (f.pc = "Returned" =>
                    f.result.type \in {PreviewType, MsgNoMatch} \cup FailureMessages)

C2_Witness ==
    \E i \in DOMAIN inv :
        /\ AmbiguousDelete(inv[i].toolResult)
        /\ inv[i].pc = "Returned"
        /\ inv[i].result.type = PreviewType
        /\ inv[i].result.topMatches[1].score >= 90

\* C3: in a flow in which candidates were proposed, every delete call is made
\* in a step before which the user had clicked a posted delete button (confirm
\* or delete_match_N) of that flow carrying the id of the deleted event.
C3_DeleteOnlyAfterConfirmation ==
    [][ Len(calls') > Len(calls) =>
          LET c == calls'[Len(calls')] IN
          (c.op = "delete" /\ \E p \in posted' : p.flow = c.flow) =>
              \E b \in clicked \cap posted :
                  /\ b.flow = c.flow
                  /\ b.eventId = c.eventId
                  /\ b.action_id \in DeleteButtons ]_vars

C3_Witness ==
    \E k \in 1..Len(calls) :
        /\ calls[k].op = "delete"
        /\ calls[k].by = "delete_match"
        /\ \E b \in posted \ clicked : b.flow = calls[k].flow /\ b.action_id = "delete_match"

\* C4: when the ranking model returns no candidate, or its first candidate (the
\* one the code takes as best match) scores below 0.8, the invocation returns
\* the no-match message; for a flow answered with it no button is posted and no
\* calendar write is made.
C4_NoMatchBelowFloor ==
    /\ \A i \in DOMAIN inv :
          LET f == inv[i] IN
          (f.ranked /\ (Len(f.topMatches) = 0 \/ f.topMatches[1].score < 80)) =>
              f.result = Text(MsgNoMatch)
    /\ \A m \in 1..Len(replies) :
          replies[m] = MsgNoMatch =>
              /\ ButtonsOf(m) = {}
              /\ \A k \in 1..Len(calls) : calls[k].flow # m

C4_Witness ==
    \E i \in DOMAIN inv :
        /\ inv[i].ranked
        /\ Len(inv[i].topMatches) > 1
        /\ inv[i].topMatches[1].score < 80
        /\ inv[i].result = Text(MsgNoMatch)

\* C5: when the first candidate scores 0.9 or more, the invocation returns the
\* preview headed by that candidate; the mention handler answers such a preview
\* with one prompt holding one confirm button that carries that candidate's id
\* and one cancel button; and in a flow answered with the prompt the only
\* calendar call is the delete of that candidate, made after its confirm button
\* was clicked.
C5_HighScoreConfirmPrompt ==
    /\ [](\A i \in DOMAIN inv :
             LET f == inv[i] IN
             (f.ranked /\ Len(f.topMatches) > 0 /\ f.topMatches[1].score >= 90) =>
                 /\ f.result.type = PreviewType
                 /\ f.result.topMatches[1] = f.topMatches[1])
    /\ [](\A m \in 1..Len(replies) :
             replies[m] = "confirm prompt" =>
                 \A k \in 1..Len(calls) :
                     calls[k].flow = m =>
                         \E b \in ButtonsOf(m) \cap clicked :
                             /\ b.action_id = "confirm_delete_action"
                             /\ calls[k] = Call("delete", "primary", b.eventId, <<>>, m,
                                                "confirm_delete_action"))
    /\ [][ \A i \in DOMAIN inv :
             LET f == inv[i]
                 reply == f.result
             IN (/\ f.pc = "Returned" /\ inv'[i].pc = "Idle"
                 /\ reply.type = PreviewType
                 /\ Len(reply.topMatches) > 0
                 /\ reply.topMatches[1].score >= 90) =>
                    /\ replies'[f.flow] = "confirm prompt"
                    /\ { b \in posted' : b.flow = f.flow } =
                           { Button("confirm_delete_action", 0, reply.topMatches[1].id, f.flow),
                             Button("discard_action", 0, Absent, f.flow) } ]_vars

C5_Witness ==
    \E m \in 1..Len(replies) :
        /\ replies[m] = "confirm prompt"
        /\ ButtonsOf(m) = { Button("confirm_delete_action", 0, "e1", m),
                            Button("discard_action", 0, Absent, m) }
        /\ \E k \in 1..Len(calls) : calls[k].flow = m

\* C6: when the first candidate scores in [0.8, 0.9), the invocation returns the
\* preview, and the mention handler answers such a preview with a candidate
\* list holding one delete button for each of the first three candidates at
\* most (and no confirm button), however long the list returned by the ranking
\* model is.
C6_CandidateListAtMostThree ==
    /\ [](\A i \in DOMAIN inv :
             LET f == inv[i] IN
             (f.ranked /\ Len(f.topMatches) > 0
                 /\ f.topMatches[1].score >= 80 /\ f.topMatches[1].score < 90) =>
                 /\ f.result.type = PreviewType
                 /\ f.result.topMatches = f.topMatches)
    /\ [][ \A i \in DOMAIN inv :
             LET f == inv[i]
                 reply == f.result
             IN (/\ f.pc = "Returned" /\ inv'[i].pc = "Idle"
                 /\ reply.type = PreviewType
                 /\ Len(reply.topMatches) > 0
                 /\ reply.topMatches[1].score >= 80
                 /\ reply.topMatches[1].score < 90) =>
                    LET shown == { b \in posted' : b.flow = f.flow }
                        offered == { b \in shown : b.action_id = "delete_match" }
                    IN /\ replies'[f.flow] = "candidate list"
                       /\ Cardinality(offered) = Min(Len(reply.topMatches), 3)
                       /\ Cardinality(offered) <= 3
                       /\ \A b \in offered :
                             b.n \in 0..2 /\ b.eventId = reply.topMatches[b.n + 1].id
                       /\ \A b \in shown : b.action_id # "confirm_delete_action" ]_vars

C6_Witness ==
    \E m \in 1..Len(replies) :
        /\ replies[m] = "candidate list"
        /\ Cardinality({ b \in ButtonsOf(m) : b.action_id = "delete_match" }) = 3
        /\ \E b \in ButtonsOf(m) \cap clicked : b.action_id = "delete_match" /\ b.n = 2

\* C7: when the final action is a delete with an eventId (a non-empty one), the
\* invocation calls deleteCalendarEvent once with that calendar and eventId and
\* does no disambiguation: no fetch of the live events, no prefilter, no
\* ranking-model call, with or without a summary.
C7_DeleteByIdIsDirect ==
    \A i \in DOMAIN inv :
        LET f == inv[i]
            o == f.toolResult
        IN (o.action = "delete" /\ Truthy(o.eventId)) =>
              /\ f.pc \in {"Deleting", "Returned"}
              /\ ResolverCalls(f.flow) =
                     << Call("delete", o.calendarId, o.eventId, <<>>, f.flow, Resolver) >>
              /\ ~f.listed
              /\ f.topCandidates = <<>>
              /\ ~f.ranked
              /\ f.result.type \in {NoReply.type, MsgDeleted, MsgFailed}

C7_Witness ==
    \E i \in DOMAIN inv :
        /\ inv[i].toolResult.action = "delete"
        /\ Truthy(inv[i].toolResult.eventId)
        /\ Truthy(inv[i].toolResult.summary)
        /\ Len(inv[i].live) > 0
        /\ inv[i].result = Text(MsgDeleted)

\* C8: when the final action is a create and summary, startDateTime or
\* endDateTime is missing, the invocation returns the could-not-understand
\* message and makes no call; createCalendarEvent is called only with all three.
C8_CreateNeedsAllFields ==
    /\ \A i \in DOMAIN inv :
          LET f == inv[i]
              o == f.toolResult
          IN (o.action = "create"
                /\ ~(Truthy(o.summary) /\ Truthy(o.startDateTime) /\ Truthy(o.endDateTime))) =>
                 /\ f.pc = "Returned"
                 /\ f.result = Text(MsgNotUnderstood)
                 /\ ResolverCalls(f.flow) = <<>>
    /\ \A k \in 1..Len(calls) :
          calls[k].op = "create" =>
              /\ Len(calls[k].details) = 3
              /\ \A n \in 1..3 : Truthy(calls[k].details[n])

C8_Witness ==
    \E i \in DOMAIN inv :
        /\ inv[i].toolResult.action = "create"
        /\ Truthy(inv[i].toolResult.summary)
        /\ Truthy(inv[i].toolResult.startDateTime)
        /\ inv[i].toolResult.endDateTime = Absent
        /\ inv[i].result = Text(MsgNotUnderstood)

\* C9: when the final action is an update and eventId or summary is missing,
\* the invocation returns the could-not-understand message and makes no call;
\* with both it calls updateCalendarEvent exactly once and makes no other write.
C9_UpdateNeedsIdAndSummary ==
    \A i \in DOMAIN inv :
        LET f == inv[i]
            o == f.toolResult
        IN o.action = "update" =>
              IF Truthy(o.eventId) /\ Truthy(o.summary)
              THEN /\ f.pc \in {"Updating", "Returned"}
                   /\ ResolverCalls(f.flow) =
                          << Call("update", o.calendarId, o.eventId, <<o.summary>>,
                                  f.flow, Resolver) >>
              ELSE /\ f.pc = "Returned"
                   /\ f.result = Text(MsgNotUnderstood)
                   /\ ResolverCalls(f.flow) = <<>>

C9_Witness ==
    \E i \in DOMAIN inv :
        /\ inv[i].toolResult.action = "update"
        /\ Truthy(inv[i].toolResult.eventId)
        /\ Truthy(inv[i].toolResult.summary)
        /\ inv[i].result = Text(MsgUpdated)

\* C10: while an invocation has no final action yet (it awaits the generation
\* model or the tool, after any number of tool iterations), and for any
\* generation result that asks for the tool, no create, update or delete call
\* has been made for it.
C10_NoWriteBeforeFinalAction ==
    \A i \in DOMAIN inv :
        LET f == inv[i] IN
        (f.pc \in {"Requesting", "ToolPending"} \/ f.toolResult.toolCall = ListTool) =>
            \A k \in 1..Len(calls) : calls[k].flow # f.flow

C10_Witness ==
    \E i \in DOMAIN inv :
        /\ inv[i].pc = "Requesting"
        /\ Len(inv[i].promptContext) >= 2
        /\ calls = <<>>

\* C11: whatever call fails inside an invocation (the generation model, the
\* validation of its output, the calendar in the tool step, in the listing or
\* ranking of a disambiguation, or in the create, update or delete call), the
\* invocation ends by returning a message for the user (or the preview): every
\* result handed back is one of the texts of the source, none an escaped error.
C11_FailuresReturnMessages ==
    \A i \in DOMAIN inv :
        LET f == inv[i] IN
        /\ f.pc = "Returned" => f.result.type \in UserFacing
        /\ f.pc \in {"Idle", "Requesting", "ToolPending", "Creating", "Updating",
                     "Deleting", "Listing", "Ranking", "Returned"}

C11_Witness ==
    \E i \in DOMAIN inv :
        /\ inv[i].pc = "Returned"
        /\ inv[i].result = Text(MsgFailed)
        /\ inv[i].toolResult.action = "update"
        /\ Len(ResolverCalls(inv[i].flow)) = 1

\* C12: the catch block answers a validation error with the invalid-data text
\* followed by the messages of all its violations, in order, joined by ", "; a
\* generation failure with the please-rephrase message; any other error with
\* the generic failure message; the three texts differ.
C12_AllViolationsReported ==
    applied.fn = "catch" =>
        LET e == applied.arg
            msgs == e.errors
        IN /\ e.name = "ZodError" =>
                 applied.out.type =
                     IF Len(msgs) = 1 THEN "Invalid data format: " \o msgs[1]
                     ELSE IF Len(msgs) = 2
                     THEN "Invalid data format: " \o msgs[1] \o ", " \o msgs[2]
                     ELSE "Invalid data format: " \o msgs[1] \o ", " \o msgs[2]
                              \o ", " \o msgs[3]
           /\ e.name = "NoObjectGeneratedError" => applied.out = Text(MsgRephrase)
           /\ e.name \notin {"ZodError", "NoObjectGeneratedError"} =>
                 applied.out = Text(MsgFailed)
           /\ e.name # "ZodError" => applied.out.type \notin
                 { "Invalid data format: " \o Join(l, ", ") : l \in ZodIssueLists }
           /\ MsgRephrase # MsgFailed

C12_Witness ==
    /\ applied.fn = "catch"
    /\ applied.arg.name = "ZodError"
    /\ Len(applied.arg.errors) = 3
    /\ applied.out.type = "Invalid data format: " \o MsgEnum \o ", " \o MsgStart \o ", " \o MsgEnd

\* C13: the validator accepts a candidate object exactly when its action is
\* create, update or delete and each datetime it carries is of the exact form
\* YYYY-MM-DDTHH:MM:SS (of the strings tried only "2025-05-20T15:00:00" is;
\* "2025-05-20T15:00" is rejected); an accepted object comes back with
\* calendarId "primary" when it had none and otherwise unchanged.
C13_ValidatorAcceptance ==
    applied.fn = "schema" =>
        LET raw == applied.arg
            wellFormed(dt) == dt = Absent \/ dt = "2025-05-20T15:00:00"
        IN /\ applied.out.success <=>
                 (/\ raw.action \in {"create", "update", "delete"}
                  /\ wellFormed(raw.startDateTime)
                  /\ wellFormed(raw.endDateTime))
           /\ raw.startDateTime = "2025-05-20T15:00" => ~applied.out.success
           /\ applied.out.success =>
                 /\ applied.out.data.calendarId =
                        (IF raw.calendarId = Absent THEN "primary" ELSE raw.calendarId)
                 /\ applied.out.data = [raw EXCEPT !.calendarId = applied.out.data.calendarId]

C13_Witness ==
    /\ applied.fn = "schema"
    /\ applied.arg.action = "create"
    /\ applied.arg.calendarId = Absent
    /\ applied.arg.startDateTime = "2025-05-20T15:00:00"
    /\ applied.arg.endDateTime = "2025-05-20T15:00:00"
    /\ applied.out.success
    /\ applied.out.data.calendarId = "primary"

\* C14: the candidate list of every preview an invocation returns is ordered
\* by score, non-increasing, so that its first entry has the highest score.
C14_CandidatesSortedByScore ==
    \A i \in DOMAIN inv :
        LET f == inv[i]
            topMatches == f.result.topMatches
        IN (f.pc = "Returned" /\ f.result.type = PreviewType) =>
              /\ \A k \in 1..(Len(topMatches) - 1) :
                    topMatches[k].score >= topMatches[k + 1].score
              /\ \A k \in 1..Len(topMatches) : topMatches[1].score >= topMatches[k].score

\* C15: every candidate of a preview an invocation returns has a score within
\* [0, 1] (0 to 100 percent): a ranking output with a score outside the range is
\* not passed on.
C15_ScoresWithinUnitRange ==
    \A i \in DOMAIN inv :
        LET f == inv[i]
            topMatches == f.result.topMatches
        IN (f.pc = "Returned" /\ f.result.type = PreviewType) =>
              \A k \in 1..Len(topMatches) :
                  topMatches[k].score >= 0 /\ topMatches[k].score <= 100

\* C16: for an event list of n events the similarity prefilter returns exactly
\* min(n, 10) events, each one an event of the input and none twice, in order
\* of non-increasing measure, and no event left out has a measure strictly
\* higher than one returned.
C16_PrefilterTopTen ==
    applied.fn = "sortByTfIdfSimilarity" =>
        LET events == applied.arg
            top == applied.out
            kept == { j \in 1..Len(events) : \E k \in 1..Len(top) : top[k] = events[j] }
        IN /\ Len(top) = Min(Len(events), 10)
           /\ \A k \in 1..Len(top) : \E j \in 1..Len(events) : top[k] = events[j]
           /\ \A k \in 1..Len(top) : \A l \in 1..Len(top) : k # l => top[k].id # top[l].id
           /\ \A k \in 1..(Len(top) - 1) : top[k].sim >= top[k + 1].sim
           /\ \A j \in (1..Len(events)) \ kept :
                 \A k \in 1..Len(top) : events[j].sim <= top[k].sim

C16_Witness ==
    /\ applied.fn = "sortByTfIdfSimilarity"
    /\ Len(applied.arg) = 11
    /\ Len(applied.out) = 10
    /\ applied.arg[1].sim < applied.arg[11].sim
    /\ applied.out[1] = applied.arg[11]

\* C17: a call of the similarity prefilter returns the same list, in the same
\* order and with the same measures, as the next call with the same event list,
\* and as a call that nothing preceded: what an earlier call was given makes
\* no difference.
C17_PrefilterHasNoMemory ==
    applied.fn = "sortByTfIdfSimilarity again" =>
        /\ applied.out[1] = applied.out[2]
        /\ applied.out[1] = prefilter(<<>>, applied.arg[2]).top
        /\ \A k \in 1..Len(applied.out[1]) :
              \E j \in 1..Len(applied.arg[2]) : applied.out[1][k] = applied.arg[2][j]

C17_Witness ==
    /\ applied.fn = "sortByTfIdfSimilarity again"
    /\ Len(applied.arg[1]) = 3
    /\ Len(applied.arg[2]) = 11
    /\ applied.arg[1][1].sim # applied.arg[2][1].sim
    /\ applied.out[1] = applied.out[2]
    /\ Len(applied.out[1]) = 10

\* C18: an invocation that awaits the generation model, the ranking model or
\* the calendar eventually ends, also when the awaited call never answers.
C18_AwaitedCallsTimeOut ==
    \A i \in Slots :
        (inv[i].pc \in {"Requesting", "ToolPending", "Creating", "Updating", "Deleting",
                        "Listing", "Ranking"})
            ~> (inv[i].pc \in {"Returned", "Idle"})

\* what the frame of an invocation holds follows from the answers that
\* invocation was given: its own listing, final object and ranking
OwnAnswersOnly(f) ==
    /\ \A k \in 1..Len(f.promptContext) : f.promptContext[k] = eventSummaries(f.live)
    /\ f.toolResult # NoObject => f.calendarId = f.toolResult.calendarId
    /\ f.listed => /\ f.events = f.live
                   /\ f.topCandidates = sortByTfIdfSimilarity(f.live)
                   /\ DispatchOf(f.toolResult) = "fuzzy"
    /\ f.ranked => /\ f.listed
                   /\ f.result = FuzzyReply(f.toolResult.summary, f.topMatches)
    /\ f.pc = "Returned" /\ f.result.type \in {MsgCreated, MsgUpdated, MsgDeleted} =>
          f.result.type = (CASE DispatchOf(f.toolResult) = "create" -> MsgCreated
                             [] DispatchOf(f.toolResult) = "update" -> MsgUpdated
                             [] DispatchOf(f.toolResult) = "delete" -> MsgDeleted
                             [] OTHER -> "none")

\* the calendar calls issued for a flow are the one write of that flow's own
\* final object
OwnCallsOnly(f) ==
    LET mine == { k \in DOMAIN calls : calls[k].flow = f.flow }
        op == IF f.toolResult = NoObject THEN "none" ELSE DispatchOf(f.toolResult)
    IN /\ Cardinality(mine) = IF op \in {"create", "update", "delete"} THEN 1 ELSE 0
       /\ \A k \in mine :
             calls[k] = Call(op, f.toolResult.calendarId,
                             IF op = "create" THEN Absent ELSE f.toolResult.eventId,
                             CallDetails(op, f.toolResult), f.flow, Resolver)

\* C19: two invocations of handleLlmCalendarAction interleaved at their awaits
\* do not touch each other's state: a step of one leaves the frame of the
\* other as it was, and the context, tool results, calendar calls and outcome
\* of each follow from the answers it was given itself.
C19_InvocationsDoNotInterfere ==
    /\ [](\A i \in DOMAIN inv : inv[i].pc # "Idle" =>
              OwnAnswersOnly(inv[i]) /\ OwnCallsOnly(inv[i]))
    /\ [][\A i \in DOMAIN inv : \A j \in DOMAIN inv \ {i} :
              inv'[i] # inv[i] => inv'[j] = inv[j]]_vars

\* both invocations are in flight on different listings: one has its ranking,
\* the other has had a tool round and awaits the model again
C19_Witness ==
    \E i \in DOMAIN inv : \E j \in DOMAIN inv \ {i} :
        /\ inv[i].ranked /\ inv[i].pc = "Returned"
        /\ inv[j].pc = "Requesting" /\ Len(inv[j].promptContext) > 0
        /\ inv[i].live # inv[j].live

\* C20: the generation result an invocation leaves the loop with, and
\* dispatches, declares no tool name; while the loop runs no result has been
\* kept for dispatch and the context holds the serialized result of every tool
\* execution.
C20_DispatchOnlyWithoutToolName ==
    \A i \in DOMAIN inv :
        LET f == inv[i] IN
        /\ f.toolResult # NoObject => f.toolResult.toolCall = Absent
        /\ f.pc \in {"Requesting", "ToolPending"} =>
              /\ f.toolResult = NoObject
              /\ \A k \in 1..Len(f.promptContext) :
                    f.promptContext[k] = eventSummaries(f.live)

\* C21: when the final action is a delete with neither eventId nor summary
\* (each missing or empty), the invocation has returned a failure message and
\* has made no calendar call for it: no listing of events, no ranking, no
\* delete or other write.
C21_DeleteWithoutIdOrSummaryFails ==
    \A i \in DOMAIN inv :
        LET f == inv[i]
            o == f.toolResult
        IN (o.action = "delete" /\ ~Truthy(o.eventId) /\ ~Truthy(o.summary)) =>
              /\ f.pc = "Returned"
              /\ f.result = Text(MsgNoEventId)
              /\ ~f.listed /\ ~f.ranked
              /\ \A k \in 1..Len(calls) : calls[k].flow # f.flow

C21_Witness ==
    \E i \in DOMAIN inv :
        /\ inv[i].toolResult.action = "delete"
        /\ inv[i].toolResult.eventId = Absent
        /\ inv[i].toolResult.summary = Absent
        /\ Len(inv[i].live) > 0
        /\ inv[i].pc = "Returned"

\* C22: the text submitted to the ranking model with the reduced candidate
\* set is the original text of the user's request.
C22_RankingGetsOriginalText ==
    \A i \in DOMAIN inv :
        inv[i].listed => inv[i].userText = inv[i].text

\* the ids of a list of events
IdsOf(events) == { events[n].id : n \in 1..Len(events) }

\* C23: every candidate a returned preview offers for deletion is one of the
\* events the prefilter passed to the ranking model, themselves among the live
\* events fetched for that invocation.
C23_CandidatesAreLiveEvents ==
    \A i \in DOMAIN inv :
        LET f == inv[i] IN
        (f.pc = "Returned" /\ isFuzzyDeletePreview(f.result)) =>
            /\ IdsOf(f.topCandidates) \subseteq IdsOf(f.live)
            /\ IdsOf(f.result.topMatches) \subseteq IdsOf(f.topCandidates)

\* C24: every delete button the mention handler posts (confirm or
\* delete_match_N) is for a candidate whose score is at least the floor.
C24_ButtonsAtOrAboveFloor ==
    [][ \A i \in DOMAIN inv : \A b \in posted' \ posted :
          (b.flow = inv[i].flow /\ b.action_id \in DeleteButtons) =>
              inv[i].result.topMatches[b.n + 1].score >= FloorScore ]_vars

\* C25: a delete call made by a button handler (confirm or delete_match_N)
\* is made on the calendar the candidates of its flow were fetched from.
C25_ConfirmedDeleteOnFetchedCalendar ==
    \A k \in 1..Len(calls) :
        calls[k].by \in DeleteButtons =>
            \A r \in fetched : r.flow = calls[k].flow => calls[k].calendarId = r.calendarId

\* C26: one invocation of handleLlmCalendarAction makes at most one write call
\* (create, update or delete) on the calendar, and the operation of that call
\* is the action of its final generation result.
C26_AtMostOneMatchingWrite ==
    /\ \A flow \in 1..mentions : Len(ResolverCalls(flow)) <= 1
    /\ \A i \in DOMAIN inv :
          LET f == inv[i]
              mine == ResolverCalls(f.flow)
          IN \A k \in 1..Len(mine) :
                /\ f.toolResult # NoObject
                /\ mine[k].op \in {"create", "update", "delete"}
                /\ mine[k].op = f.toolResult.action

C26_Witness ==
    \E i \in DOMAIN inv :
        /\ inv[i].pc = "Returned"
        /\ inv[i].toolResult.action = "update"
        /\ Len(ResolverCalls(inv[i].flow)) = 1
        /\ ResolverCalls(inv[i].flow)[1].op = "update"

\* C27: no call reaches the calendar service while the stored userTokens is
\* still null.
C27_NoCalendarCallBeforeConnect ==
    [][ Len(calls') > Len(calls) => userTokens # Null ]_vars

\* C28: a /calendar command takes one subcommand branch: the handler says
\* "Unknown subcommand" exactly when the first argument is none of list,
\* connect, create, update, delete, upcoming, and then says nothing else.
C28_OneSubcommandBranch ==
    applied.fn = Command =>
        LET says == applied.out
            unknown == \E k \in 1..Len(says) : says[k] = MsgUnknown
        IN /\ unknown <=> Arg(applied.arg.args, 0) \notin Subcommands
           /\ Len(says) <= 1

\* C29: a mention that arrives while userTokens is null is answered with the
\* connect-first message and starts no invocation of handleLlmCalendarAction:
\* no model call, no calendar call and no button ever belongs to that mention.
C29_MentionBeforeConnectOnlyReplies ==
    /\ [][ (mentions' > mentions /\ userTokens = Null) =>
              /\ replies' = Append(replies, MsgConnectFirst)
              /\ inv' = inv
              /\ calls' = calls
              /\ fetched' = fetched ]_vars
    /\ [](\A m \in DOMAIN replies :
              replies[m] = MsgConnectFirst =>
                  /\ \A i \in DOMAIN inv : inv[i].flow # m
                  /\ \A k \in 1..Len(calls) : calls[k].flow # m
                  /\ \A r \in fetched : r.flow # m
                  /\ ButtonsOf(m) = {})

C29_Witness ==
    \E m \in DOMAIN replies :
        /\ replies[m] = MsgConnectFirst
        /\ userTokens = "tokens"
        /\ \A i \in DOMAIN inv : inv[i].pc = "Idle"

====
